---------------------------- MODULE Spec2Model ----------------------------
(***************************************************************************)
(* NSE option-chain bot: the activity ranker and the aggregate reporter of *)
(* nse_utils.py, and the Telegram handlers of bot.py that call them.       *)
(*                                                                         *)
(* Numbers.  The quote source's quantities are whole numbers; the weights  *)
(* 0.5, 0.3 and 0.2 are kept as 5, 3 and 2 tenths, so an activity score is *)
(* held in tenths (680.0 is 6800).  Totals of open interest are held in    *)
(* units.  The arithmetic is exact: binary rounding of the products is not *)
(* modelled.                                                               *)
(*                                                                         *)
(* Python values.  A value that the code reads through dict.get is a       *)
(* record [type, v]: an int, None, or the exception an operation on it     *)
(* raised.  A dict is a function whose DOMAIN is the set of its keys.      *)
(***************************************************************************)
EXTENDS Integers, Sequences, FiniteSets, TLC

VARIABLES
    row,                \* argument of calculate_activity_score
    score,              \* its return value
    option_chain_data,  \* argument of get_top5_active_strikes / format_option_chain_message
    top5,               \* outcome of get_top5_active_strikes
    message,            \* outcome of format_option_chain_message
    user_states,        \* bot.py: user_id -> dict
    last,               \* bot.py: the last handler run, its user and its outcome
    reply,              \* bot.py: per user, what the formatter last produced for them
    symbol_class        \* bot.py: per user holding a symbol, the option_type that
                        \* get_expiries was given when the symbol was stored

vars == <<row, score, option_chain_data, top5, message, user_states, last, reply,
          symbol_class>>

scoreVars == <<row, score>>
rankVars == <<option_chain_data, top5, message>>
botVars == <<user_states, last, reply, symbol_class>>

---------------------------------------------------------------------------
\* Bounds of the model.

\* largest quantity a field of a leg takes in the scoring inputs
MaxQty == 2
\* longest chain snapshot handed to the ranker
MaxChain == 6

---------------------------------------------------------------------------
\* Python values.

None == [type |-> "NoneType", v |-> 0]
Num(n) == [type |-> "int", v |-> n]
TypeError == [type |-> "TypeError", v |-> 0]

\* dict.get(key, default)
get(d, key, default) == IF key \in DOMAIN d THEN d[key] ELSE default

\* truth value of an int or None
truthy(x) == x.type = "int" /\ x.v # 0

\* x or y
py_or(x, y) == IF truthy(x) THEN x ELSE y

\* x + y: a TypeError unless both are numbers
py_add(x, y) == IF x.type = "int" /\ y.type = "int" THEN Num(x.v + y.v) ELSE TypeError

\* x * w for a weight w given in tenths
py_mul(x, w) == IF x.type = "int" THEN Num(x.v * w) ELSE TypeError

---------------------------------------------------------------------------
\* nse_utils.calculate_activity_score

W_OI == 5
W_VOLUME == 3
W_QTY == 2

Fields == {"openInterest", "totalTradedVolume", "totalBuyQuantity", "totalSellQuantity"}

\* `leg.get(field, 0) or 0`
field_or_0_neg(leg, f) == py_or(get(leg, f, Num(0)), Num(0 - 1))
field_or_0_raw(leg, f) == get(leg, f, Num(0))
field_or_0(leg, f) == py_or(get(leg, f, Num(0)), Num(0))

\* (oi * 0.5) + (volume * 0.3) + (qty * 0.2) of one leg, in tenths
leg_activity_swapped(leg) ==
    LET oi == field_or_0(leg, "openInterest")
        volume == field_or_0(leg, "totalTradedVolume")
        qty == py_add(field_or_0(leg, "totalBuyQuantity"),
                      field_or_0(leg, "totalSellQuantity"))
    IN  py_add(py_add(py_mul(oi, W_VOLUME), py_mul(volume, W_OI)), py_mul(qty, W_QTY))
leg_activity(leg) ==
    LET oi == field_or_0(leg, "openInterest")
        volume == field_or_0(leg, "totalTradedVolume")
        qty == py_add(field_or_0(leg, "totalBuyQuantity"),
                      field_or_0(leg, "totalSellQuantity"))
    IN  py_add(py_add(py_mul(oi, W_OI), py_mul(volume, W_VOLUME)), py_mul(qty, W_QTY))

calculate_activity_score(r) ==
    LET s0 == Num(0)
        s1 == IF "CE" \in DOMAIN r THEN py_add(s0, leg_activity(r["CE"])) ELSE s0
        s2 == IF "PE" \in DOMAIN r THEN py_add(s1, leg_activity(r["PE"])) ELSE s1
    IN  s2

---------------------------------------------------------------------------
\* nse_utils.get_top5_active_strikes

TopN == 5

PyList(elems) == [type |-> "list", elems |-> elems]
NoneData == [type |-> "NoneType", elems |-> <<>>]
PyDict(items) == [type |-> "dict", items |-> items]
NoneDict == [type |-> "NoneType", items |-> <<>>]

\* `not option_chain_data`: None or the empty dict
falsy_dict(d) == d.type = "NoneType" \/ DOMAIN d.items = {}

\* the loop of lines 135-137: one (row, score) pair per row, in the chain's order
RECURSIVE strikes_with_score(_)
strikes_with_score(rows) ==
    IF rows = <<>> THEN <<>>
    ELSE LET n == Len(rows)
         IN  Append(strikes_with_score(SubSeq(rows, 1, n - 1)),
                    <<rows[n], calculate_activity_score(rows[n])>>)

\* a descending sort that puts a pair before the pairs of equal score (what sorting
\* ascending and reversing the list gives)
RECURSIVE insert_before_equal(_, _)
insert_before_equal(sorted, x) ==
    IF sorted = <<>> THEN <<x>>
    ELSE IF Head(sorted)[2].v > x[2].v
         THEN <<Head(sorted)>> \o insert_before_equal(Tail(sorted), x)
         ELSE <<x>> \o sorted

\* list.sort(key=lambda x: x[1], reverse=True): by score descending, pairs of equal
\* score kept in their order (the sort is stable, also when reversed)
RECURSIVE insert_by_score(_, _)
insert_by_score(sorted, x) ==
    IF sorted = <<>> THEN <<x>>
    ELSE IF Head(sorted)[2].v >= x[2].v
         THEN <<Head(sorted)>> \o insert_by_score(Tail(sorted), x)
         ELSE <<x>> \o sorted

\* the sort without reverse=True
RECURSIVE insert_ascending(_, _)
insert_ascending(sorted, x) ==
    IF sorted = <<>> THEN <<x>>
    ELSE IF Head(sorted)[2].v <= x[2].v
         THEN <<Head(sorted)>> \o insert_ascending(Tail(sorted), x)
         ELSE <<x>> \o sorted
RECURSIVE sort_ascending(_)
sort_ascending(pairs) ==
    IF pairs = <<>> THEN <<>>
    ELSE LET n == Len(pairs)
         IN  insert_ascending(sort_ascending(SubSeq(pairs, 1, n - 1)), pairs[n])

RECURSIVE sort_by_score_desc(_)
sort_by_score_desc(pairs) ==
    IF pairs = <<>> THEN <<>>
    ELSE LET n == Len(pairs)
         IN  insert_by_score(sort_by_score_desc(SubSeq(pairs, 1, n - 1)), pairs[n])

\* strikes_with_score[:5]
first_six(pairs) == SubSeq(pairs, 1, IF Len(pairs) < TopN + 1 THEN Len(pairs) ELSE TopN + 1)
last_five(pairs) == SubSeq(pairs, IF Len(pairs) < TopN THEN 1 ELSE Len(pairs) - TopN + 1, Len(pairs))
first_five(pairs) == SubSeq(pairs, 1, IF Len(pairs) < TopN THEN Len(pairs) ELSE TopN)

\* [row for row, score in ...]
rows_of(pairs) == [i \in 1..Len(pairs) |-> pairs[i][1]]

\* What a call leaves behind: ret, the list returned; raised, the exception that
\* left the function ("none": every path returns); logged, the exception the except
\* clause caught and logged ("none" when the try block completed); scored, how many
\* pairs the loop appended; arg, the argument as the call leaves it.
RankOutcome(ret, logged, scored, arg) ==
    [called |-> TRUE, ret |-> ret, raised |-> "none", logged |-> logged,
     scored |-> scored, arg |-> arg]

\* the ranker sorting option_chain_data['data'] itself instead of a list of its own
get_top5_sorting_in_place(ocd) ==
    IF falsy_dict(ocd) \/ "data" \notin DOMAIN ocd.items
    THEN RankOutcome(<<>>, "none", 0, ocd)
    ELSE IF ocd.items["data"].type # "list"
    THEN RankOutcome(<<>>, "TypeError", 0, ocd)
    ELSE LET sorted == rows_of(sort_by_score_desc(strikes_with_score(ocd.items["data"].elems)))
         IN  RankOutcome(rows_of(first_five(sort_by_score_desc(
                                    strikes_with_score(ocd.items["data"].elems)))),
                         "none", Len(sorted),
                         PyDict([k \in DOMAIN ocd.items |->
                                    IF k = "data" THEN PyList(sorted) ELSE ocd.items[k]]))
get_top5_active_strikes(ocd) ==
    IF falsy_dict(ocd) \/ "data" \notin DOMAIN ocd.items
    THEN RankOutcome(<<>>, "none", 0, ocd)
    ELSE LET data == ocd.items["data"]
         IN  IF data.type # "list"
             THEN RankOutcome(<<>>, "TypeError", 0, ocd)
             ELSE LET pairs == strikes_with_score(data.elems)
                      failed == {i \in 1..Len(pairs) : pairs[i][2].type # "int"}
                  IN  IF failed # {}
                      THEN RankOutcome(<<>>, pairs[CHOOSE i \in failed :
                                                   \A j \in failed : i <= j][2].type,
                                       (CHOOSE i \in failed : \A j \in failed : i <= j) - 1,
                                       ocd)
                      ELSE RankOutcome(rows_of(first_five(sort_by_score_desc(pairs))),
                                       "none", Len(pairs), ocd)

---------------------------------------------------------------------------
\* nse_utils.format_option_chain_message: the totals and the put/call ratio

Float(num, den) == [type |-> "float", num |-> num, den |-> den]
ZeroDivisionError == [type |-> "ZeroDivisionError", num |-> 0, den |-> 1]

\* x / y
py_div(x, y) ==
    IF x.type # "int" \/ y.type # "int" THEN [type |-> "TypeError", num |-> 0, den |-> 1]
    ELSE IF y.v = 0 THEN ZeroDivisionError
    ELSE Float(x.v, y.v)

\* the loop of lines 195-201
RECURSIVE oi_totals_assigned(_)
oi_totals_assigned(rows) ==
    IF rows = <<>> THEN [ce |-> Num(0), pe |-> Num(0)]
    ELSE LET n == Len(rows)
             t == oi_totals_assigned(SubSeq(rows, 1, n - 1))
             r == rows[n]
             ce == IF "CE" \in DOMAIN r THEN field_or_0(r["CE"], "openInterest") ELSE t.ce
             pe == IF "PE" \in DOMAIN r THEN field_or_0(r["PE"], "openInterest") ELSE t.pe
         IN  [ce |-> ce, pe |-> pe]
RECURSIVE oi_totals(_)
oi_totals(rows) ==
    IF rows = <<>> THEN [ce |-> Num(0), pe |-> Num(0)]
    ELSE LET n == Len(rows)
             t == oi_totals(SubSeq(rows, 1, n - 1))
             r == rows[n]
             ce == IF "CE" \in DOMAIN r
                   THEN py_add(t.ce, field_or_0(r["CE"], "openInterest")) ELSE t.ce
             pe == IF "PE" \in DOMAIN r
                   THEN py_add(t.pe, field_or_0(r["PE"], "openInterest")) ELSE t.pe
         IN  [ce |-> ce, pe |-> pe]

\* pcr = (total_pe_oi / total_ce_oi) if total_ce_oi else 0.0
put_call_ratio_unguarded(total_ce_oi, total_pe_oi) == py_div(total_pe_oi, total_ce_oi)
put_call_ratio(total_ce_oi, total_pe_oi) ==
    IF truthy(total_ce_oi) THEN py_div(total_pe_oi, total_ce_oi) ELSE Float(0, 1)

\* What a call leaves behind: kind, "no_active_strikes" (line 193), "report" (the
\* message of lines 206-219) or "raised" (an exception left the function, exc);
\* the numbers and the strikes the report shows; arg, the argument as the call
\* leaves it.
ReportOutcome(kind, ce, pe, pcr, strikes, exc, arg) ==
    [called |-> TRUE, kind |-> kind, total_ce_oi |-> ce, total_pe_oi |-> pe, pcr |-> pcr,
     strikes |-> strikes, exc |-> exc, arg |-> arg]

format_option_chain_message(ocd) ==
    LET r == get_top5_active_strikes(ocd)
    IN  IF r.ret = <<>>
        THEN ReportOutcome("no_active_strikes", Num(0), Num(0), Float(0, 1), <<>>, "none", r.arg)
        ELSE LET rows == get(r.arg.items, "data", PyList(<<>>)).elems
                 t == oi_totals(rows)
                 pcr == put_call_ratio(t.ce, t.pe)
                 exc == IF t.ce.type # "int" THEN t.ce.type
                        ELSE IF t.pe.type # "int" THEN t.pe.type
                        ELSE IF pcr.type # "float" THEN pcr.type
                        ELSE "none"
             IN  IF exc # "none"
                 THEN ReportOutcome("raised", Num(0), Num(0), Float(0, 1), <<>>, exc, r.arg)
                 ELSE ReportOutcome("report", t.ce, t.pe, pcr, r.ret, "none", r.arg)

---------------------------------------------------------------------------
\* Inputs.

\* a dict with the given keys
Dicts(keys, values) == UNION {[S -> values] : S \in SUBSET keys}

FieldValues == {None} \cup {Num(n) : n \in 0..MaxQty}
Legs == Dicts(Fields, FieldValues)

\* a strike record: strikePrice, and each of CE and PE present or not
Row(strike, ce, pe) ==
    [k \in {"strikePrice"} \cup {"CE" : x \in ce} \cup {"PE" : x \in pe} |->
        IF k = "strikePrice" THEN strike
        ELSE IF k = "CE" THEN CHOOSE x \in ce : TRUE
        ELSE CHOOSE x \in pe : TRUE]

OptLegs == {{}} \cup {{l} : l \in Legs}
\* a few legs to stand beside every leg: none, the empty dict, every field at its
\* largest, and every field null
ProbeLegs == {{}, {<<>>}, {[f \in Fields |-> Num(MaxQty)]}, {[f \in Fields |-> None]}}
ScoringRows ==
    {Row(100, ce, pe) : ce \in OptLegs, pe \in ProbeLegs}
        \cup {Row(100, ce, pe) : ce \in ProbeLegs, pe \in OptLegs}

\* the records of the documented example
Example100 ==
    Row(100, {[openInterest |-> Num(1000), totalTradedVolume |-> Num(500),
               totalBuyQuantity |-> Num(100), totalSellQuantity |-> Num(50)]}, {})
Example200 ==
    Row(200, {}, {[openInterest |-> Num(2000), totalTradedVolume |-> Num(100),
                   totalBuyQuantity |-> Num(10), totalSellQuantity |-> Num(10)]})
\* neither leg
Bare300 == Row(300, {}, {})
\* both legs, a null and absent fields; scores what Example100 scores
Both400 ==
    Row(400, {[openInterest |-> None, totalTradedVolume |-> Num(1000),
               totalSellQuantity |-> Num(1000)]},
             {[openInterest |-> Num(360)]})

ChainRows == {Example100, Example200, Bare300, Both400}
Chains == UNION {[1..n -> ChainRows] : n \in 0..MaxChain}

Snapshot(rows) == PyDict([data |-> PyList(rows)])
\* None, {}, a dict without 'data', and a 'data' that is no sequence
InvalidSnapshots ==
    {NoneDict, PyDict(<<>>), PyDict([timestamp |-> NoneData]), PyDict([data |-> NoneData])}
Snapshots == {Snapshot(c) : c \in Chains} \cup InvalidSnapshots

---------------------------------------------------------------------------
\* The state before anything ran.

NotScored == [type |-> "not_called", v |-> 0]
NotRanked ==
    [called |-> FALSE, ret |-> <<>>, raised |-> "none", logged |-> "none",
     scored |-> 0, arg |-> NoneDict]
NotFormatted ==
    [called |-> FALSE, kind |-> "none", total_ce_oi |-> Num(0), total_pe_oi |-> Num(0),
     pcr |-> Float(0, 1), strikes |-> <<>>, exc |-> "none", arg |-> NoneDict]

ScoreIdle == row = <<>> /\ score = NotScored
RankIdle == option_chain_data = NoneDict /\ top5 = NotRanked /\ message = NotFormatted

\* no update handled yet
NoUpdate ==
    [handler |-> "none", user |-> 0, ret |-> 0, raised |-> "none",
     request |-> <<>>, fetched |-> NoneDict, after |-> NoneDict]
BotIdle == user_states = <<>> /\ last = NoUpdate /\ reply = <<>> /\ symbol_class = <<>>

---------------------------------------------------------------------------
\* Scoring one strike record.

InitScore ==
    /\ row \in ScoringRows \cup ChainRows
    /\ score = NotScored
    /\ RankIdle
    /\ BotIdle

Score ==
    /\ score = NotScored
    /\ score' = calculate_activity_score(row)
    /\ UNCHANGED <<row, rankVars, botVars>>

NextScore == Score

SpecScore == InitScore /\ [][NextScore]_vars

---------------------------------------------------------------------------
\* Ranking and reporting one snapshot.

InitRank ==
    /\ option_chain_data \in Snapshots
    /\ top5 = NotRanked
    /\ message = NotFormatted
    /\ ScoreIdle
    /\ BotIdle

\* a caller runs get_top5_active_strikes(option_chain_data, ...)
Rank ==
    /\ ~top5.called
    /\ top5' = get_top5_active_strikes(option_chain_data)
    /\ option_chain_data' = top5'.arg
    /\ UNCHANGED <<message, scoreVars, botVars>>

\* a caller runs format_option_chain_message(option_chain_data, ...)
Format ==
    /\ ~message.called
    /\ message' = format_option_chain_message(option_chain_data)
    /\ option_chain_data' = message'.arg
    /\ UNCHANGED <<top5, scoreVars, botVars>>

NextRank == Rank \/ Format

SpecRank == InitRank /\ [][NextRank]_vars

---------------------------------------------------------------------------
\* nse_utils.get_option_chain

\* nse.nsefetch(url) raised
FetchFailed == [type |-> "exception", items |-> <<>>]

get_option_chain(payload) ==
    IF payload.type = "exception" THEN Snapshot(<<>>)
    ELSE IF "records" \in DOMAIN payload.items
            /\ "data" \in DOMAIN payload.items["records"].items
         THEN payload.items["records"]
         ELSE Snapshot(<<>>)

\* what the quote source answers: nothing (the fetch raises), a payload without
\* 'records', records without 'data', records whose 'data' is null, and chains
Payloads ==
    {FetchFailed,
     PyDict(<<>>),
     PyDict([records |-> PyDict([timestamp |-> NoneData])]),
     PyDict([records |-> PyDict([data |-> NoneData])]),
     PyDict([records |-> Snapshot(<<>>)]),
     PyDict([records |-> Snapshot(<<Example100, Example200>>)]),
     PyDict([records |-> Snapshot(<<Bare300, Example200, Both400, Example100>>)])}

---------------------------------------------------------------------------
\* bot.py: the handlers.  main registers them flat on the Application, so every
\* update is dispatched by its own pattern alone, whatever an earlier handler
\* returned.

CHOOSING_TYPE == 1
CHOOSING_INDEX == 2
CHOOSING_STOCK == 3
CHOOSING_EXPIRY == 4
SHOW_CHAIN == 5
\* ConversationHandler.END
END == 0 - 1

Users == {101, 102}

\* callback data matching ^idx_, with data.split("_")[1]
IndexCallbacks == {[data |-> "idx_NIFTY", symbol |-> "NIFTY"]}
\* text messages that are no command, with text.strip().upper() and its length
StockTexts ==
    {[text |-> "tcs", symbol |-> "TCS", len |-> 3],
     [text |-> "nifty", symbol |-> "NIFTY", len |-> 5],
     [text |-> "x", symbol |-> "X", len |-> 1],
     [text |-> " /cancel", symbol |-> "/CANCEL", len |-> 7]}
\* callback data matching ^exp_, with data.split("exp_")[1]
ExpiryCallbacks == {[data |-> "exp_27-Jan-2025", expiry |-> "27-Jan-2025"]}
\* what get_expiries returns: nothings, or dates
ExpiryLists == {<<>>, <<"27-Jan-2025">>}

\* d[key] = value
set_item(d, key, value) ==
    [k \in DOMAIN d \cup {key} |-> IF k = key THEN value ELSE d[k]]

\* d without key (the dict that replaces d[key]'s holder has no such entry)
del_item(d, key) == [k \in DOMAIN d \ {key} |-> d[k]]

Handled(handler, user, ret, raised) ==
    [handler |-> handler, user |-> user, ret |-> ret, raised |-> raised,
     request |-> <<>>, fetched |-> NoneDict, after |-> NoneDict]

\* a handler that reads and writes nothing of the state
Answer(handler, user, ret) ==
    /\ last' = Handled(handler, user, ret, "none")
    /\ UNCHANGED <<user_states, reply, symbol_class, scoreVars, rankVars>>

\* a handler that an exception left before it wrote anything
Raise(handler, user, exc) ==
    /\ last' = Handled(handler, user, 0, exc)
    /\ UNCHANGED <<user_states, reply, symbol_class, scoreVars, rankVars>>

\* start with user_states.setdefault(user_id, {}) for user_states[user_id] = {}
start_setdefault(u) ==
    /\ user_states' = IF u \in DOMAIN user_states THEN user_states
                       ELSE set_item(user_states, u, <<>>)
    /\ last' = Handled("start", u, CHOOSING_TYPE, "none")
    /\ symbol_class' = symbol_class
    /\ UNCHANGED <<reply, scoreVars, rankVars>>

start(u) ==
    /\ user_states' = set_item(user_states, u, <<>>)
    /\ last' = Handled("start", u, CHOOSING_TYPE, "none")
    /\ symbol_class' = del_item(symbol_class, u)
    /\ UNCHANGED <<reply, scoreVars, rankVars>>

restart_bot(u) ==
    /\ user_states' = set_item(user_states, u, <<>>)
    /\ last' = Handled("restart_bot", u, CHOOSING_TYPE, "none")
    /\ symbol_class' = del_item(symbol_class, u)
    /\ UNCHANGED <<reply, scoreVars, rankVars>>

option_chain_menu(u) == Answer("option_chain_menu", u, CHOOSING_TYPE)

index_options_menu(u) ==
    IF u \notin DOMAIN user_states
    THEN Raise("index_options_menu", u, "KeyError")
    ELSE /\ user_states' =
                set_item(user_states, u, set_item(user_states[u], "option_type", "indices"))
         /\ last' = Handled("index_options_menu", u, CHOOSING_INDEX, "none")
         /\ UNCHANGED <<reply, symbol_class, scoreVars, rankVars>>

stock_options_menu(u) ==
    IF u \notin DOMAIN user_states
    THEN Raise("stock_options_menu", u, "KeyError")
    ELSE /\ user_states' =
                set_item(user_states, u, set_item(user_states[u], "option_type", "equities"))
         /\ last' = Handled("stock_options_menu", u, CHOOSING_STOCK, "none")
         /\ UNCHANGED <<reply, symbol_class, scoreVars, rankVars>>

\* On "/CANCEL" the handler sets update.callback_query before it calls
\* option_chain_menu: a library whose Update is frozen raises there, another lets
\* option_chain_menu return.
handle_stock_symbol(u, t, expiries) ==
    IF t.symbol = "/CANCEL"
    THEN \/ Answer("handle_stock_symbol", u, CHOOSING_TYPE)
         \/ Raise("handle_stock_symbol", u, "AttributeError")
    ELSE IF t.len < 2 \/ t.len > 10
    THEN Answer("handle_stock_symbol", u, CHOOSING_STOCK)
    ELSE IF u \notin DOMAIN user_states
    THEN Raise("handle_stock_symbol", u, "KeyError")
    ELSE /\ user_states' =
                set_item(user_states, u, set_item(user_states[u], "symbol", t.symbol))
         /\ last' = Handled("handle_stock_symbol", u,
                             IF expiries = <<>> THEN CHOOSING_STOCK ELSE CHOOSING_EXPIRY,
                             "none")
         /\ symbol_class' = set_item(symbol_class, u, "equities")
         /\ UNCHANGED <<reply, scoreVars, rankVars>>

handle_index_selection(u, c, expiries) ==
    IF u \notin DOMAIN user_states
    THEN Raise("handle_index_selection", u, "KeyError")
    ELSE /\ user_states' =
                set_item(user_states, u, set_item(user_states[u], "symbol", c.symbol))
         /\ last' = Handled("handle_index_selection", u,
                             IF expiries = <<>> THEN CHOOSING_INDEX ELSE CHOOSING_EXPIRY,
                             "none")
         /\ symbol_class' = set_item(symbol_class, u, "indices")
         /\ UNCHANGED <<reply, scoreVars, rankVars>>

\* (the two \E bind the handler's locals option_chain_data and message)
handle_expiry_selection(u, c, payload) ==
    IF \/ u \notin DOMAIN user_states
       \/ "symbol" \notin DOMAIN user_states[u]
       \/ "option_type" \notin DOMAIN user_states[u]
    THEN Raise("handle_expiry_selection", u, "KeyError")
    ELSE \E option_chain_data_ \in {get_option_chain(payload)} :
         \E message_ \in {format_option_chain_message(option_chain_data_)} :
             /\ last' = [handler |-> "handle_expiry_selection", user |-> u,
                         ret |-> SHOW_CHAIN, raised |-> "none",
                         request |-> [symbol |-> user_states[u]["symbol"],
                                      expiry |-> c.expiry,
                                      option_type |-> user_states[u]["option_type"]],
                         fetched |-> option_chain_data_, after |-> message_.arg]
             /\ reply' = set_item(reply, u, message_)
             /\ UNCHANGED <<user_states, symbol_class, scoreVars, rankVars>>

market_menu(u) == Answer("market_menu", u, CHOOSING_TYPE)

handle_market_callback(u) == Answer("handle_market_callback", u, CHOOSING_TYPE)

\* start(msg, context) with msg a Message: a Message has no effective_user
back_to_start(u) == Raise("back_to_start", u, "AttributeError")

cancel(u) == Answer("cancel", u, END)

Init ==
    /\ user_states = <<>>
    /\ last = NoUpdate
    /\ reply = <<>>
    /\ symbol_class = <<>>
    /\ ScoreIdle
    /\ RankIdle

Next ==
    \/ \E u \in Users : start(u)
    \/ \E u \in Users : restart_bot(u)
    \/ \E u \in Users : option_chain_menu(u)
    \/ \E u \in Users : index_options_menu(u)
    \/ \E u \in Users : stock_options_menu(u)
    \/ \E u \in Users, t \in StockTexts, e \in ExpiryLists : handle_stock_symbol(u, t, e)
    \/ \E u \in Users, c \in IndexCallbacks, e \in ExpiryLists :
          handle_index_selection(u, c, e)
    \/ \E u \in Users, c \in ExpiryCallbacks, p \in Payloads :
          handle_expiry_selection(u, c, p)
    \/ \E u \in Users : market_menu(u)
    \/ \E u \in Users : handle_market_callback(u)
    \/ \E u \in Users : back_to_start(u)
    \/ \E u \in Users : cancel(u)

Spec == Init /\ [][Next]_vars

---------------------------------------------------------------------------
\* Vocabulary of the properties.

\* the documented shape: a dict whose 'data' is a sequence of strike records
ValidSnapshot(d) ==
    d.type = "dict" /\ "data" \in DOMAIN d.items /\ d.items["data"].type = "list"
ChainOf(d) == d.items["data"].elems

ActivityOf(r) == calculate_activity_score(r).v

Smaller(a, b) == IF a < b THEN a ELSE b
Occurrences(seq, x) == Cardinality({i \in 1..Len(seq) : seq[i] = x})
Range(seq) == {seq[i] : i \in 1..Len(seq)}

\* a field as the specification reads it: its number, 0 when absent or null
Quantity(leg, f) == IF f \in DOMAIN leg /\ leg[f].type = "int" THEN leg[f].v ELSE 0
\* legScore, in tenths
LegScore(leg) ==
    5 * Quantity(leg, "openInterest") + 3 * Quantity(leg, "totalTradedVolume")
        + 2 * (Quantity(leg, "totalBuyQuantity") + Quantity(leg, "totalSellQuantity"))
LegScoreOf(r, side) == IF side \in DOMAIN r THEN LegScore(r[side]) ELSE 0
OpenInterestOf(r, side) == IF side \in DOMAIN r THEN Quantity(r[side], "openInterest") ELSE 0

HasNullField(r) ==
    \E side \in {"CE", "PE"} \cap DOMAIN r : \E f \in DOMAIN r[side] : r[side][f] = None
HasAbsentField(r) ==
    \E side \in {"CE", "PE"} \cap DOMAIN r : DOMAIN r[side] # Fields

---------------------------------------------------------------------------
\* C1: whatever the snapshot, the strikes get_top5_active_strikes returns are in
\* descending order of activity score: each one scores at least what the next scores.
C1_RankedDescending ==
    top5.called =>
        \A i \in 1..(Len(top5.ret) - 1) :
            ActivityOf(top5.ret[i]) >= ActivityOf(top5.ret[i + 1])

\* five strikes returned from a chain that came in ascending somewhere
C1_Witness ==
    /\ top5.called
    /\ Len(top5.ret) = 5
    /\ ActivityOf(top5.ret[1]) > ActivityOf(top5.ret[5])
    /\ \E i \in 1..(Len(ChainOf(option_chain_data)) - 1) :
           ActivityOf(ChainOf(option_chain_data)[i])
               < ActivityOf(ChainOf(option_chain_data)[i + 1])

\* C2: the ranker returns exactly min(5, |chain|) strikes, and for a chain of no
\* strikes the empty list, with no error raised or logged.
C2_ReturnsMinOfFiveAndLength ==
    (top5.called /\ ValidSnapshot(option_chain_data)) =>
        /\ Len(top5.ret) = Smaller(5, Len(ChainOf(option_chain_data)))
        /\ (ChainOf(option_chain_data) = <<>> =>
               top5.ret = <<>> /\ top5.raised = "none" /\ top5.logged = "none")

\* a chain of more than five strikes was cut to five
C2_Witness ==
    /\ top5.called
    /\ ValidSnapshot(option_chain_data)
    /\ Len(ChainOf(option_chain_data)) > 5
    /\ Len(top5.ret) = 5

\* C3: the activity score of a strike record is the sum, over the legs it has, of
\* openInterest*0.5 + totalTradedVolume*0.3 + (buy + sell quantity)*0.2, an absent or
\* null field counting 0; a record with neither leg scores 0; the documented
\* example scores 680 and 1034.
C3_ScoreIsWeightedSum ==
    score # NotScored =>
        /\ score = Num(LegScoreOf(row, "CE") + LegScoreOf(row, "PE"))
        /\ ({"CE", "PE"} \cap DOMAIN row = {} => score = Num(0))
        /\ (row = Example100 => score = Num(6800))
        /\ (row = Example200 => score = Num(10340))

\* a record with both legs, a null field and an absent one, scored above 0
C3_Witness ==
    /\ score # NotScored
    /\ {"CE", "PE"} \subseteq DOMAIN row
    /\ HasNullField(row)
    /\ HasAbsentField(row)
    /\ score.type = "int"
    /\ score.v > 0

\* C4: the activity score of a strike record is never negative.
C4_ScoreNonNegative ==
    score # NotScored => (score.type = "int" /\ score.v >= 0)

\* a record whose only fields are null, scored
C4_Witness ==
    /\ score # NotScored
    /\ "CE" \in DOMAIN row
    /\ DOMAIN row["CE"] # {}
    /\ \A f \in DOMAIN row["CE"] : row["CE"][f] = None
    /\ score = Num(0)

\* C5: the reported put/call ratio is put total / call total when the call total
\* is not 0 and is 0 when the call total is 0, whatever the put total; the
\* division never fails on a zero call total.
C5_PutCallRatio ==
    /\ message.called => message.exc # "ZeroDivisionError"
    /\ ValidSnapshot(option_chain_data) =>
          LET t == oi_totals(ChainOf(option_chain_data))
              pcr == put_call_ratio(t.ce, t.pe)
          IN  /\ pcr.type = "float"
              /\ pcr.den # 0
              /\ (t.ce.v # 0 => pcr.num * t.ce.v = t.pe.v * pcr.den)
              /\ (t.ce.v = 0 => pcr.num = 0)
              /\ ((message.called /\ ChainOf(option_chain_data) # <<>>) =>
                     /\ message.kind = "report"
                     /\ message.pcr = pcr
                     /\ message.total_ce_oi = t.ce
                     /\ message.total_pe_oi = t.pe)

\* a report over a chain with puts and no calls
C5_Witness ==
    /\ message.called
    /\ message.kind = "report"
    /\ message.total_ce_oi.v = 0
    /\ message.total_pe_oi.v > 0
    /\ message.pcr = Float(0, 1)

\* C6: the open-interest totals of a chain are the sums of the totals of its two
\* parts, wherever it is cut; one strike adds its legs' openInterest, 0 for a leg
\* or a field that is missing or null.
C6_TotalsDistribute ==
    (message.called /\ message.kind = "report") =>
        LET chain == ChainOf(option_chain_data)
        IN  /\ \A k \in 0..Len(chain) :
                   LET a == oi_totals(SubSeq(chain, 1, k))
                       b == oi_totals(SubSeq(chain, k + 1, Len(chain)))
                   IN  /\ message.total_ce_oi = Num(a.ce.v + b.ce.v)
                       /\ message.total_pe_oi = Num(a.pe.v + b.pe.v)
            /\ \A i \in 1..Len(chain) :
                   oi_totals(<<chain[i]>>) =
                       [ce |-> Num(OpenInterestOf(chain[i], "CE")),
                        pe |-> Num(OpenInterestOf(chain[i], "PE"))]

\* a report whose totals both come from more than one strike
C6_Witness ==
    /\ message.called
    /\ message.kind = "report"
    /\ \E k \in 1..(Len(ChainOf(option_chain_data)) - 1) :
           LET a == oi_totals(SubSeq(ChainOf(option_chain_data), 1, k))
           IN  /\ a.ce.v > 0 /\ a.ce.v < message.total_ce_oi.v
               /\ a.pe.v > 0 /\ a.pe.v < message.total_pe_oi.v

\* C7: on a snapshot of the documented shape neither function raises, the ranker
\* logs no caught exception and scores every strike, and every strike's score is
\* a number.
C7_TotalOnDocumentedShape ==
    ValidSnapshot(option_chain_data) =>
        /\ \A i \in 1..Len(ChainOf(option_chain_data)) :
               calculate_activity_score(ChainOf(option_chain_data)[i]).type = "int"
        /\ (top5.called =>
               /\ top5.raised = "none"
               /\ top5.logged = "none"
               /\ top5.scored = Len(ChainOf(option_chain_data)))
        /\ (message.called =>
               /\ message.exc = "none"
               /\ message.kind # "raised"
               /\ Len(message.strikes) = Smaller(5, Len(ChainOf(option_chain_data))))

\* both functions ran over a chain that holds a strike with a null field
C7_Witness ==
    /\ ValidSnapshot(option_chain_data)
    /\ top5.called
    /\ message.called
    /\ message.kind = "report"
    /\ \E i \in 1..Len(ChainOf(option_chain_data)) :
           HasNullField(ChainOf(option_chain_data)[i])

\* C8: on a snapshot that is not of the documented shape the ranker fails with
\* InvalidSnapshot.
C8_InvalidSnapshotFailsFast ==
    (top5.called /\ ~ValidSnapshot(option_chain_data)) => top5.raised = "InvalidSnapshot"

\* C9: a handler that fetches and formats a chain leaves the snapshot as it was
\* fetched, strike for strike, leaves user_states as it was, and leaves every
\* other user's reply as it was; its own reply is what the formatter gives for
\* that snapshot alone.
C9_NoSideEffects ==
    [][\A u \in Users :
          (last'.handler = "handle_expiry_selection" /\ last'.user = u
              /\ last'.raised = "none" /\ last' # last) =>
              /\ last'.after = last'.fetched
              /\ user_states' = user_states
              /\ \A v \in (DOMAIN reply) \ {u} : v \in DOMAIN reply' /\ reply'[v] = reply[v]
              /\ DOMAIN reply' = DOMAIN reply \cup {u}
              /\ reply'[u].strikes = get_top5_active_strikes(last'.fetched).ret
              /\ reply'[u].arg = last'.fetched]_vars

\* two users hold replies over different snapshots, the later one over a chain
\* that was fetched out of score order
C9_Witness ==
    /\ last.handler = "handle_expiry_selection"
    /\ last.raised = "none"
    /\ \E v \in DOMAIN reply :
           /\ v # last.user
           /\ reply[v].kind = "report"
           /\ reply[v].arg # last.fetched
    /\ ValidSnapshot(last.fetched)
    /\ \E i \in 1..(Len(ChainOf(last.fetched)) - 1) :
           ActivityOf(ChainOf(last.fetched)[i]) < ActivityOf(ChainOf(last.fetched)[i + 1])
    /\ user_states # <<>>

\* C10: every strike returned is a record of the chain, none is returned more often
\* than the chain holds it, and every strike returned scores at least what any
\* strike left out scores.
C10_TopScorersSelected ==
    (top5.called /\ ValidSnapshot(option_chain_data)) =>
        LET chain == ChainOf(option_chain_data)
        IN  /\ Range(top5.ret) \subseteq Range(chain)
            /\ \A r \in Range(chain) : Occurrences(top5.ret, r) <= Occurrences(chain, r)
            /\ \A t \in Range(top5.ret) : \A r \in Range(chain) :
                   Occurrences(top5.ret, r) < Occurrences(chain, r)
                       => ActivityOf(t) >= ActivityOf(r)

\* a strike was left out that scores less than every strike returned, and it
\* stood in the chain before one of them
C10_Witness ==
    /\ top5.called
    /\ ValidSnapshot(option_chain_data)
    /\ Len(top5.ret) = 5
    /\ \E i \in 1..Len(ChainOf(option_chain_data)) :
           /\ ChainOf(option_chain_data)[i] \notin Range(top5.ret)
           /\ i < Len(ChainOf(option_chain_data))
           /\ \A t \in Range(top5.ret) :
                  ActivityOf(t) > ActivityOf(ChainOf(option_chain_data)[i])

\* the place a strike of the chain takes when the strikes are put in descending
\* order of score and strikes of equal score stay in the chain's order
PlaceOf(chain, k) ==
    1 + Cardinality({j \in 1..Len(chain) : ActivityOf(chain[j]) > ActivityOf(chain[k])})
      + Cardinality({j \in 1..(k - 1) : ActivityOf(chain[j]) = ActivityOf(chain[k])})

\* C11: strikes of equal score are returned in the order the chain holds them, and
\* of strikes of equal score at the cut after the fifth the earlier ones are kept:
\* the result is fixed by the chain, place by place.
C11_TiesKeepChainOrder ==
    (top5.called /\ ValidSnapshot(option_chain_data)) =>
        LET chain == ChainOf(option_chain_data)
        IN  /\ Len(top5.ret) = Smaller(5, Len(chain))
            /\ \A k \in 1..Len(chain) :
                   PlaceOf(chain, k) <= 5 => top5.ret[PlaceOf(chain, k)] = chain[k]

\* two different strikes of equal score, the earlier one returned and the later
\* one cut off, and two more of equal score both returned
C11_Witness ==
    /\ top5.called
    /\ ValidSnapshot(option_chain_data)
    /\ LET chain == ChainOf(option_chain_data)
       IN  /\ \E k, j \in 1..Len(chain) :
                  /\ k < j
                  /\ chain[k] # chain[j]
                  /\ ActivityOf(chain[k]) = ActivityOf(chain[j])
                  /\ PlaceOf(chain, k) <= 5
                  /\ PlaceOf(chain, j) > 5
           /\ \E k, j \in 1..Len(chain) :
                  /\ k < j
                  /\ chain[k] # chain[j]
                  /\ ActivityOf(chain[k]) = ActivityOf(chain[j])
                  /\ PlaceOf(chain, j) <= 5

C13_NoMissingKey == last.raised # "KeyError"

\* C14: the option_type handle_expiry_selection passes to get_option_chain is the
\* one get_expiries was given when the user's stored symbol was stored.
C14_FetchClassMatchesSymbol ==
    (last.handler = "handle_expiry_selection" /\ last.raised = "none") =>
        last.request.option_type = symbol_class[last.user]

=============================================================================
